---- MODULE Spec2Model ----
(***************************************************************************)
(* LickHouse: the lick editor (src/lick_editor.py), the application window  *)
(* and its file store (src/main.py) and the create dialog                   *)
(* (src/create_lick_dialog.py), as a state machine.                         *)
(*                                                                         *)
(* Python dicts are records/functions whose DOMAIN is the set of keys, so   *)
(* `"fret" in note` is "fret" \in DOMAIN note.  Python lists are sequences  *)
(* (index i of the list is index i+1 of the sequence).  Coordinates are     *)
(* integers.  None is the string "None".                                    *)
(***************************************************************************)
EXTENDS Integers, Sequences, FiniteSets, TLC

VARIABLES
    title_label,          \* LickEditor.title_label.text()
    measures,             \* FretboardView.measures
    current_measure,      \* FretboardView.current_measure
    capo_position,        \* FretboardView.capo_position
    capo_spinbox,         \* LickEditor.capo_spinbox.value()
    show_notes,           \* FretboardView.show_notes
    note_sequence_label,  \* LickEditor.note_sequence_label, the joined names
    key_label,            \* LickEditor.key_label, the text after "Key: "
    current_lick_path,    \* LickHouseApp.current_lick_path
    files,                \* the file system under base_dir: path -> content
    message,              \* the dialog the last handler showed ("none": no dialog)
    raised,               \* the exception that escaped the last handler ("none")
    query,                \* the last evaluation of a read-only function
    last_saved            \* history: the lick the last successful save wrote, and where

vars == <<title_label, measures, current_measure, capo_position, capo_spinbox,
          show_notes, note_sequence_label, key_label, current_lick_path,
          files, message, raised, query, last_saved>>

None == "None"

(***************************************************************************)
(* Fretboard geometry, FretboardView.__init__                               *)
(***************************************************************************)
string_count == 6
fret_count == 12
string_spacing == 30
fret_spacing == 60
left_margin == 40
top_margin == 40
\* the hit box of a right-click, mousePressEvent
tolerance == 10

(***************************************************************************)
(* Bounds of the model                                                      *)
(***************************************************************************)
\* SpecEdit: placements per lick and measures per lick
MaxNotes == 3
MaxMeasures == 2
\* Spec (whole application): placements per lick and measures per lick
MaxAppNotes == 1
MaxAppMeasures == 2
\* SpecKey: placements in the measure handed to detect_key
MaxKeyNotes == 3
\* SpecKeyMix: placements in the measure handed to detect_key
MaxMixNotes == 3
\* SpecNav: placements per lick and measures per lick
MaxNavNotes == 2
MaxNavMeasures == 3
\* SpecFile: placements per lick and measures per lick
MaxFileNotes == 1
MaxFileMeasures == 1
\* SpecSeq: placements in the measure whose sequence is read
MaxSeqNotes == 3
\* SpecClick: placements in the measure that is clicked on
MaxClickNotes == 3

(***************************************************************************)
(* Helpers for Python built-ins                                             *)
(***************************************************************************)
\* the sequences over S of length n at most
SeqsUpTo(S, n) == UNION {[1..k -> S] : k \in 0..n}

\* dict.get(key, default)
Get(d, k, default) == IF k \in DOMAIN d THEN d[k] ELSE default

Min(a, b) == IF a <= b THEN a ELSE b
Max(a, b) == IF a >= b THEN a ELSE b

\* round(a / b) for integers a and b > 0: Python 3 rounds half to even
round(a, b) ==
    LET q == a \div b
        r == a % b
    IN  IF 2 * r < b THEN q
        ELSE IF 2 * r > b THEN q + 1
        ELSE IF q % 2 = 0 THEN q ELSE q + 1

\* list.remove(v): removes the first element equal to v
list_remove(s, v) ==
    LET j == CHOOSE k \in 1..Len(s) : s[k] = v /\ \A m \in 1..(k - 1) : s[m] # v
    IN  SubSeq(s, 1, j - 1) \o SubSeq(s, j + 1, Len(s))

\* list.insert(i, v) for 0 <= i; an index beyond the end appends
list_insert(s, i, v) ==
    LET k == Min(i, Len(s))
    IN  SubSeq(s, 1, k) \o <<v>> \o SubSeq(s, k + 1, Len(s))

\* list.pop(i) for 0 <= i < len: the list without element i
list_pop(s, i) == SubSeq(s, 1, i) \o SubSeq(s, i + 2, Len(s))

\* a sort by x that puts a note before the earlier notes of the same x
RECURSIVE sorted_by_x_unstable(_)
sorted_by_x_unstable(s) ==
    IF s = <<>> THEN <<>>
    ELSE LET n == Len(s)
             rest == sorted_by_x_unstable(SubSeq(s, 1, n - 1))
             last == s[n]
             keep == {i \in 1..Len(rest) : Get(rest[i], "x", 0) < Get(last, "x", 0)}
             k == Cardinality(keep)
         IN  SubSeq(rest, 1, k) \o <<last>> \o SubSeq(rest, k + 1, Len(rest))

\* sorted(notes, key=lambda n: n.get("x", 0)): a stable sort
RECURSIVE sorted_by_x(_)
sorted_by_x(s) ==
    IF s = <<>> THEN <<>>
    ELSE LET n == Len(s)
             rest == sorted_by_x(SubSeq(s, 1, n - 1))
             last == s[n]
             keep == {i \in 1..Len(rest) : Get(rest[i], "x", 0) <= Get(last, "x", 0)}
             k == Cardinality(keep)
         IN  \* rest is sorted, so keep = 1..k; last goes after its equals
             SubSeq(rest, 1, k) \o <<last>> \o SubSeq(rest, k + 1, Len(rest))

(***************************************************************************)
(* Note-position mapper                                                     *)
(***************************************************************************)
Chromatic == <<"C", "C#", "D", "D#", "E", "F", "F#", "G", "G#", "A", "A#", "B">>

\* FretboardView.string_notes: string -> the names of frets 0..12
string_notes ==
    [s \in 0..5 |->
        CASE s = 0 -> <<"E", "F", "F#", "G", "G#", "A", "A#", "B", "C", "C#", "D", "D#", "E">>
          [] s = 1 -> <<"B", "C", "C#", "D", "D#", "E", "F", "F#", "G", "G#", "A", "A#", "B">>
          [] s = 2 -> <<"G", "G#", "A", "A#", "B", "C", "C#", "D", "D#", "E", "F", "F#", "G">>
          [] s = 3 -> <<"D", "D#", "E", "F", "F#", "G", "G#", "A", "A#", "B", "C", "C#", "D">>
          [] s = 4 -> <<"A", "A#", "B", "C", "C#", "D", "D#", "E", "F", "F#", "G", "G#", "A">>
          [] s = 5 -> <<"E", "F", "F#", "G", "G#", "A", "A#", "B", "C", "C#", "D", "D#", "E">>]

\* get_note_at_position with `<` for `<=`: the twelfth fret is lost
get_note_at_position_lt(capo, string_idx, fret) ==
    IF fret = 0 THEN string_notes[string_idx][capo + 1]
    ELSE LET actual_fret == capo + fret
         IN  IF actual_fret < fret_count
             THEN string_notes[string_idx][actual_fret + 1]
             ELSE None

\* get_note_at_position that wraps past the twelfth fret instead of giving up
get_note_at_position_wrap(capo, string_idx, fret) ==
    IF fret = 0 THEN string_notes[string_idx][capo + 1]
    ELSE LET actual_fret == capo + fret
         IN  IF actual_fret <= fret_count
             THEN string_notes[string_idx][actual_fret + 1]
             ELSE string_notes[string_idx][(actual_fret % 12) + 1]

\* FretboardView.get_note_at_position, with self.capo_position as capo
get_note_at_position(capo, string_idx, fret) ==
    IF fret = 0 THEN string_notes[string_idx][capo + 1]
    ELSE LET actual_fret == capo + fret
         IN  IF actual_fret <= fret_count
             THEN string_notes[string_idx][actual_fret + 1]
             ELSE None

\* FretboardView.get_fret_from_x
get_fret_from_x(x) == Max(0, Min(fret_count, round(x - left_margin, fret_spacing)))

(***************************************************************************)
(* Key detector                                                             *)
(***************************************************************************)
\* detect_key's note_counts after the first i notes: a dict name -> count
RECURSIVE note_counts(_, _, _)
note_counts(capo, notes, i) ==
    IF i = 0 THEN <<>>
    ELSE LET prev == note_counts(capo, notes, i - 1)
             note == notes[i]
         IN  IF "fret" \in DOMAIN note
             THEN LET note_name == get_note_at_position(capo, note.string, note.fret)
                  IN  IF note_name # None
                      THEN IF note_name \in DOMAIN prev
                           THEN [prev EXCEPT ![note_name] = @ + 1]
                           ELSE (note_name :> 1) @@ prev
                      ELSE prev
             ELSE prev

\* detect_key's chord_patterns, in the order the dict literal lists them
chord_roots == Chromatic
chord_patterns ==
    [key \in {chord_roots[i] : i \in 1..12} |->
        CASE key = "C"  -> <<"C", "E", "G">>
          [] key = "C#" -> <<"C#", "F", "G#">>
          [] key = "D"  -> <<"D", "F#", "A">>
          [] key = "D#" -> <<"D#", "G", "A#">>
          [] key = "E"  -> <<"E", "G#", "B">>
          [] key = "F"  -> <<"F", "A", "C">>
          [] key = "F#" -> <<"F#", "A#", "C#">>
          [] key = "G"  -> <<"G", "B", "D">>
          [] key = "G#" -> <<"G#", "C", "D#">>
          [] key = "A"  -> <<"A", "C#", "E">>
          [] key = "A#" -> <<"A#", "D", "F">>
          [] key = "B"  -> <<"B", "D#", "F#">>]

\* the score of one pattern: the inner loop of detect_key
pattern_score(counts, pattern) ==
    Get(counts, pattern[1], 0) + Get(counts, pattern[2], 0) + Get(counts, pattern[3], 0)

\* better_score with `>=` for `>`: a later root with the same score wins
better_score_ge(score, best_score) == score >= best_score

\* detect_key's test `if score > best_score`
better_score(score, best_score) == score > best_score

\* detect_key's (best_key, best_score) after the first k patterns
RECURSIVE best_match(_, _)
best_match(counts, k) ==
    IF k = 0 THEN [best_key |-> None, best_score |-> 0]
    ELSE LET prev == best_match(counts, k - 1)
             key == chord_roots[k]
             score == pattern_score(counts, chord_patterns[key])
         IN  IF better_score(score, prev.best_score)
             THEN [best_key |-> key, best_score |-> score]
             ELSE prev

\* FretboardView.detect_key; the result "Key of X" is <<"Key of", X>>
NoKeyDetected == <<"No key detected">>
detect_key(capo, notes) ==
    IF notes = <<>> THEN NoKeyDetected
    ELSE LET best == best_match(note_counts(capo, notes, Len(notes)), 12)
         IN  IF best.best_key # None THEN <<"Key of", best.best_key>>
             ELSE NoKeyDetected

\* the names update_note_display joins with an arrow, from the sorted notes
RECURSIVE sequence_names(_, _)
sequence_names(capo, sorted_notes) ==
    IF sorted_notes = <<>> THEN <<>>
    ELSE LET note == Head(sorted_notes)
             rest == sequence_names(capo, Tail(sorted_notes))
         IN  IF "fret" \in DOMAIN note
             THEN LET note_name == get_note_at_position(capo, note.string, note.fret)
                  IN  IF note_name # None THEN <<note_name>> \o rest ELSE rest
             ELSE IF "technique" \in DOMAIN note
             THEN <<note.technique>> \o rest
             ELSE rest

\* FretboardView.get_note_sequence: the text "No notes", or the names it joins
get_note_sequence(capo, notes) ==
    IF notes = <<>> THEN [text |-> "No notes"]
    ELSE [names |-> sequence_names(capo, sorted_by_x(notes))]

(***************************************************************************)
(* The editor: FretboardView and LickEditor.  The operators below take and  *)
(* return the editor's fields as one record e.                              *)
(***************************************************************************)
Ed ==
    [title_label |-> title_label, measures |-> measures,
     current_measure |-> current_measure, capo_position |-> capo_position,
     capo_spinbox |-> capo_spinbox, show_notes |-> show_notes,
     note_sequence_label |-> note_sequence_label, key_label |-> key_label]

SetEd(e) ==
    /\ title_label' = e.title_label
    /\ measures' = e.measures
    /\ current_measure' = e.current_measure
    /\ capo_position' = e.capo_position
    /\ capo_spinbox' = e.capo_spinbox
    /\ show_notes' = e.show_notes
    /\ note_sequence_label' = e.note_sequence_label
    /\ key_label' = e.key_label

\* {"notes": []}
EmptyMeasure == [notes |-> <<>>]

\* the editor after FretboardView.__init__ and LickEditor.init_ui
NewEditor ==
    [title_label |-> "New Lick", measures |-> <<>>, current_measure |-> 0,
     capo_position |-> 0, capo_spinbox |-> 0, show_notes |-> FALSE,
     note_sequence_label |-> <<>>, key_label |-> <<>>]

\* LickEditor.update_note_display
update_note_display(e) ==
    IF e.current_measure < Len(e.measures)
    THEN LET notes == Get(e.measures[e.current_measure + 1], "notes", <<>>)
         IN  [e EXCEPT !.note_sequence_label =
                           sequence_names(e.capo_position, sorted_by_x(notes)),
                       !.key_label = detect_key(e.capo_position, notes)]
    ELSE e

\* FretboardView.load_measure (the drawing is not modelled)
load_measure(e, measure_index) ==
    IF 0 <= measure_index /\ measure_index < Len(e.measures)
    THEN [e EXCEPT !.current_measure = measure_index]
    ELSE e

\* set_capo_position that stores the position as it comes
set_capo_position_unclamped(e, position) == [e EXCEPT !.capo_position = position]

\* FretboardView.set_capo_position for an integer position
set_capo_position(e, position) ==
    [e EXCEPT !.capo_position = Max(0, Min(fret_count, position))]

\* LickEditor.update_capo_position, the slot of capo_spinbox.valueChanged
update_capo_position(e, position) ==
    update_note_display(set_capo_position(e, position))

\* QSpinBox.setValue on capo_spinbox (range 0..12): the value is clamped to
\* the range and valueChanged is emitted only when the value changes
spinbox_setValue(e, value) ==
    LET v == Max(0, Min(12, value))
    IN  IF v = e.capo_spinbox THEN e
        ELSE update_capo_position([e EXCEPT !.capo_spinbox = v], v)

\* a JSON number is [int |-> n], a JSON string is [str |-> s]
IsInt(v) == "int" \in DOMAIN v

DefaultMeasures == <<EmptyMeasure>>

\* LickEditor.load_lick: the editor it leaves and the exception it raises.
\* max(0, min(12, position)) raises TypeError for a position that is no number.
editor_load_lick(e, lick_data) ==
    LET m0 == Get(lick_data, "measures", DefaultMeasures)
        m1 == IF m0 = <<>> THEN DefaultMeasures ELSE m0
        e1 == [e EXCEPT !.title_label = Get(lick_data, "name", "Untitled Lick"),
                        !.measures = m1]
    IN  IF "capo_position" \in DOMAIN lick_data /\ ~IsInt(lick_data.capo_position)
        THEN [e |-> e1, exc |-> "TypeError"]
        ELSE LET e2 == IF "capo_position" \in DOMAIN lick_data
                       THEN spinbox_setValue(
                                set_capo_position(e1, lick_data.capo_position.int),
                                lick_data.capo_position.int)
                       ELSE e1
                 e3 == load_measure([e2 EXCEPT !.current_measure = 0], 0)
             IN  [e |-> update_note_display(e3), exc |-> "none"]

\* LickEditor.previous_measure
previous_measure(e) ==
    IF e.current_measure > 0 THEN load_measure(e, e.current_measure - 1) ELSE e

\* next_measure that wraps from the last measure to the first
next_measure_wrap(e) ==
    IF Len(e.measures) > 0
    THEN load_measure(e, (e.current_measure + 1) % Len(e.measures))
    ELSE e

\* LickEditor.next_measure
next_measure(e) ==
    IF e.current_measure < Len(e.measures) - 1
    THEN load_measure(e, e.current_measure + 1)
    ELSE e

\* LickEditor.add_measure
add_measure(e) ==
    LET current_idx == e.current_measure
    IN  load_measure([e EXCEPT !.measures = list_insert(@, current_idx + 1, EmptyMeasure)],
                     current_idx + 1)

\* the rest of delete_measure once the user has confirmed: measures.pop raises
\* IndexError for an index that is not one of the list
delete_confirmed(e) ==
    LET current_idx == e.current_measure
    IN  IF ~(current_idx < Len(e.measures)) THEN [e |-> e, exc |-> "IndexError"]
        ELSE LET popped == list_pop(e.measures, current_idx)
                 idx == IF current_idx >= Len(popped) THEN Len(popped) - 1
                        ELSE current_idx
             IN  [e |-> update_note_display(
                            load_measure([e EXCEPT !.measures = popped], idx)),
                  exc |-> "none"]

\* delete_measure without the test that keeps the last measure
delete_measure_any(e, reply) ==
    IF Len(e.measures) > 0 /\ reply = "Yes" THEN delete_confirmed(e)
    ELSE [e |-> e, exc |-> "none"]

\* LickEditor.delete_measure; reply is the answer to the confirmation dialog.
\* With one measure or none the dialog is not shown.
delete_measure(e, reply) ==
    IF Len(e.measures) > 1 /\ reply = "Yes" THEN delete_confirmed(e)
    ELSE [e |-> e, exc |-> "none"]

\* LickEditor.toggle_notes / FretboardView.toggle_notes
toggle_notes(e, checked) == [e EXCEPT !.show_notes = checked]

(***************************************************************************)
(* Drop texts.  The palette's buttons carry "0".."12", "h", "p" and "/";    *)
(* the view accepts any dragged text.  Sup2 is the one-character string     *)
(* U+00B2 (superscript two): str.isdigit() is True for it and int() raises  *)
(* ValueError.                                                              *)
(***************************************************************************)
Sup2 == "<U+00B2>"
DecimalTexts ==
    <<"0", "1", "2", "3", "4", "5", "6", "7", "8", "9", "10", "11", "12", "13">>

\* str.isdigit()
isdigit(text) == text = Sup2 \/ \E i \in 1..Len(DecimalTexts) : DecimalTexts[i] = text

\* whether int(text) returns
int_ok(text) == \E i \in 1..Len(DecimalTexts) : DecimalTexts[i] = text

\* int(text) where it returns
int(text) == (CHOOSE i \in 1..Len(DecimalTexts) : DecimalTexts[i] = text) - 1

\* in_fretboard that counts a string too many below the lowest
in_fretboard_tall(x, y) ==
    /\ left_margin <= x /\ x <= left_margin + fret_count * fret_spacing
    /\ top_margin <= y /\ y <= top_margin + string_count * string_spacing

\* the bounds check of dropEvent
in_fretboard(x, y) ==
    /\ left_margin <= x /\ x <= left_margin + fret_count * fret_spacing
    /\ top_margin <= y /\ y <= top_margin + (string_count - 1) * string_spacing

\* measures with note appended to the notes of measure index cm
append_note(ms, cm, note) ==
    [ms EXCEPT ![cm + 1] = [@ EXCEPT !.notes = Append(@, note)]]

\* FretboardView.dropEvent at scene position (x, y) with the dragged text
dropEvent(e, x, y, dropped_text) ==
    IF ~in_fretboard(x, y) THEN [e |-> e, exc |-> "none"]
    ELSE LET string_idx == round(y - top_margin, string_spacing)
         IN  IF ~(0 <= string_idx /\ string_idx < string_count)
             THEN [e |-> e, exc |-> "none"]
             ELSE IF ~(e.current_measure < Len(e.measures))
             THEN [e |-> e, exc |-> "none"]
             ELSE IF dropped_text \in {"h", "p", "/"}
             THEN [e |-> [e EXCEPT !.measures = append_note(@, e.current_measure,
                             [string |-> string_idx, technique |-> dropped_text,
                              x |-> x, y |-> y])],
                   exc |-> "none"]
             ELSE IF isdigit(dropped_text)
             THEN IF ~int_ok(dropped_text) THEN [e |-> e, exc |-> "ValueError"]
                  ELSE LET fret == int(dropped_text)
                       IN  IF 0 <= fret /\ fret <= fret_count
                           THEN [e |-> [e EXCEPT !.measures =
                                           append_note(@, e.current_measure,
                                               [string |-> string_idx, fret |-> fret,
                                                x |-> x, y |-> y])],
                                 exc |-> "none"]
                           ELSE [e |-> e, exc |-> "none"]
             ELSE [e |-> e, exc |-> "none"]

Abs(n) == IF n < 0 THEN -n ELSE n

\* a hit test on x alone
within_note_x(note, x, y) == Abs(x - Get(note, "x", 0)) <= tolerance

\* the hit test of mousePressEvent
within_note(note, x, y) ==
    /\ Abs(x - Get(note, "x", 0)) <= tolerance
    /\ Abs(y - Get(note, "y", 0)) <= tolerance

\* the for loop of mousePressEvent over the list it removes from: the list
\* iterator is at index i (from 1); a removal shifts the later notes down
\* while the iterator still moves on
RECURSIVE remove_loop(_, _, _, _)
remove_loop(notes, i, x, y) ==
    IF i > Len(notes) THEN notes
    ELSE IF within_note(notes[i], x, y)
    THEN remove_loop(list_remove(notes, notes[i]), i + 1, x, y)
    ELSE remove_loop(notes, i + 1, x, y)

\* FretboardView.mousePressEvent for the right button at scene position (x, y)
mousePressEvent(e, x, y) ==
    IF ~(e.current_measure < Len(e.measures))
    THEN [e |-> e, exc |-> "IndexError"]
    ELSE [e |-> [e EXCEPT !.measures[e.current_measure + 1].notes =
                              remove_loop(@, 1, x, y)],
          exc |-> "none"]

(***************************************************************************)
(* The file store.  A path is <<folder, file name>>.  A file's content is   *)
(* its text as json.loads sees it: missing, empty, malformed, or a JSON     *)
(* value that is an object (a dict) or not.                                 *)
(***************************************************************************)
LickFolder == "E Licks"
\* another of the default folders
OtherFolder == "A Licks"
Folders == {LickFolder, OtherFolder}

\* the .lick files the tree can show
Paths ==
    {<<LickFolder, "a.lick">>, <<LickFolder, "Untitled Lick.lick">>,
     <<OtherFolder, "a.lick">>, <<OtherFolder, "Untitled Lick.lick">>}

\* every file of the model: the .lick files and a file of another kind
AllPaths == Paths \cup {<<LickFolder, "notes.txt">>, <<OtherFolder, "notes.txt">>}

\* path.lower().endswith('.lick')
endswith_lick(path) == path[2] \in {"a.lick", "Untitled Lick.lick"}

\* os.path.basename(path)
basename(path) == path[2]

\* os.path.splitext(os.path.basename(path))[0]
stem(path) ==
    CASE basename(path) = "a.lick" -> "a"
      [] basename(path) = "Untitled Lick.lick" -> "Untitled Lick"

Missing == [kind |-> "missing"]
EmptyFile == [kind |-> "empty"]
MalformedFile == [kind |-> "malformed"]
ArrayFile == [kind |-> "json", type |-> "array", value |-> <<>>]
\* a file that is no lick
TextFile == [kind |-> "text"]

\* json.dump(lick_data, file, indent=4) of a dict into a file opened with 'w'
json_dump(lick_data) == [kind |-> "json", type |-> "object", value |-> lick_data]

\* lick_data with the measures written last to first
saved_lick_data_reversed(e) ==
    [name |-> e.title_label,
     measures |-> [k \in 1..Len(e.measures) |-> e.measures[Len(e.measures) + 1 - k]]]

\* what save_current_lick puts in lick_data
saved_lick_data(e) == [name |-> e.title_label, measures |-> e.measures]

\* load_lick that does not fill in a missing name from the file name
app_load_lick_no_name(e, fs, path) ==
    LET content == fs[path]
    IN  IF content.kind # "json" THEN [e |-> e, failed |-> TRUE]
        ELSE IF content.type # "object" THEN [e |-> e, failed |-> TRUE]
        ELSE LET d1 == content.value
                 d2 == IF "measures" \in DOMAIN d1 THEN d1
                       ELSE ("measures" :> DefaultMeasures) @@ d1
                 r == editor_load_lick(e, d2)
             IN  [e |-> r.e, failed |-> r.exc # "none"]

\* LickHouseApp.load_lick(path) on file system fs: the editor it leaves and
\* whether it reported "Error Loading Lick" (and cleared current_lick_path)
app_load_lick(e, fs, path) ==
    LET content == fs[path]
    IN  IF content.kind = "missing" THEN [e |-> e, failed |-> TRUE]       \* FileNotFoundError
        ELSE IF content.kind = "empty" THEN [e |-> e, failed |-> TRUE]    \* ValueError
        ELSE IF content.kind = "malformed" THEN [e |-> e, failed |-> TRUE]  \* JSONDecodeError
        ELSE IF content.type # "object" THEN [e |-> e, failed |-> TRUE]   \* ValueError
        ELSE LET d0 == content.value
                 d1 == IF "name" \in DOMAIN d0 THEN d0 ELSE ("name" :> stem(path)) @@ d0
                 d2 == IF "measures" \in DOMAIN d1 THEN d1
                       ELSE ("measures" :> DefaultMeasures) @@ d1
                 r == editor_load_lick(e, d2)
             IN  [e |-> r.e, failed |-> r.exc # "none"]

\* current_lick_path = NoPath
NoPath == <<>>

NoSave == [path |-> NoPath]

\* the lick the editor holds: what the round trip is to preserve
Lick(e) == [name |-> e.title_label, capo_position |-> e.capo_position,
            measures |-> e.measures]

\* the history of saves after path p got content from elsewhere
Forget(p) == IF last_saved.path = p THEN NoSave ELSE last_saved

(***************************************************************************)
(* Files on disk when the application starts (written by earlier sessions,  *)
(* by other programs, or synced in)                                         *)
(***************************************************************************)
TestNote == [string |-> 0, fret |-> 3, x |-> 100, y |-> 40]
HighNote == [string |-> 0, fret |-> 15, x |-> 220, y |-> 40]

TestFile == json_dump([name |-> "Test", measures |-> <<[notes |-> <<TestNote>>]>>])
CapoFile == json_dump([name |-> "Capo", capo_position |-> [int |-> 5],
                       measures |-> <<EmptyMeasure, EmptyMeasure>>])
BareFile == json_dump(<<>>)
EmptyListFile == json_dump([measures |-> <<>>, capo_position |-> [int |-> 99]])
BadCapoFile == json_dump([name |-> "Bad", capo_position |-> [str |-> "3"],
                          measures |-> <<EmptyMeasure>>])
HighFretFile == json_dump([name |-> "High", measures |-> <<[notes |-> <<HighNote>>]>>])

\* two measures, and a capo_position that is no number
BadCapoTwoFile == json_dump([name |-> "Bad2", capo_position |-> [str |-> "3"],
                             measures |-> <<EmptyMeasure, [notes |-> <<TestNote>>]>>])

\* two measures that differ
TwoFile == json_dump([name |-> "Two", measures |-> <<[notes |-> <<TestNote>>], EmptyMeasure>>])

ExternalContents ==
    {Missing, EmptyFile, MalformedFile, ArrayFile, TestFile, CapoFile, BareFile,
     EmptyListFile, BadCapoFile, HighFretFile}

(***************************************************************************)
(* Initial state: LickHouseApp.__init__, LickEditor.__init__ and            *)
(* FretboardView.__init__                                                   *)
(***************************************************************************)
\* the application holding editor e, with nothing selected and no dialog shown
Started(e) ==
    /\ title_label = e.title_label
    /\ measures = e.measures
    /\ current_measure = e.current_measure
    /\ capo_position = e.capo_position
    /\ capo_spinbox = e.capo_spinbox
    /\ show_notes = e.show_notes
    /\ note_sequence_label = e.note_sequence_label
    /\ key_label = e.key_label
    /\ current_lick_path = NoPath
    /\ message = "none"
    /\ raised = "none"
    /\ query = [fn |-> "none"]
    /\ last_saved = NoSave

NoFiles == [p \in AllPaths |-> Missing]

Init ==
    /\ Started(NewEditor)
    /\ \E c \in ExternalContents :
           files = [NoFiles EXCEPT ![<<LickFolder, "a.lick">>] = c]

(***************************************************************************)
(* Editing gestures                                                         *)
(***************************************************************************)
\* the number of placements in measures ms
RECURSIVE TotalNotes(_)
TotalNotes(ms) ==
    IF ms = <<>> THEN 0
    ELSE Len(Get(Head(ms), "notes", <<>>)) + TotalNotes(Tail(ms))

AppUnchanged == UNCHANGED <<current_lick_path, files, query, last_saved>>

\* a handler of the editor that also writes the lick to its file
Gesture_autosave(r) ==
    /\ SetEd(r.e)
    /\ raised' = r.exc
    /\ message' = "none"
    /\ files' = IF current_lick_path = NoPath THEN files
                ELSE [files EXCEPT ![current_lick_path] = json_dump(saved_lick_data(r.e))]
    /\ UNCHANGED <<current_lick_path, query, last_saved>>

\* a handler that ran on the editor alone: r is [e, exc]
Gesture(r) ==
    /\ SetEd(r.e)
    /\ raised' = r.exc
    /\ message' = "none"
    /\ AppUnchanged

\* a drop on the fretboard
DropAt(pt, text, maxNotes) ==
    LET r == dropEvent(Ed, pt[1], pt[2], text)
    IN  /\ TotalNotes(r.e.measures) <= maxNotes
        /\ Gesture(r)

Drop(points, texts, maxNotes) ==
    \E pt \in points, text \in texts : DropAt(pt, text, maxNotes)

\* a right-click on the fretboard
RightClickAt(pt) == Gesture(mousePressEvent(Ed, pt[1], pt[2]))

RightClick(points) == \E pt \in points : RightClickAt(pt)

\* a right-click that reaches LickEditor.mousePressEvent
EditorRightClick == Gesture([e |-> update_note_display(Ed), exc |-> "none"])

\* the Previous button
Previous == Gesture([e |-> previous_measure(Ed), exc |-> "none"])

\* the Next button
NextMeasure == Gesture([e |-> next_measure(Ed), exc |-> "none"])

\* the Add Measure button
AddMeasure(maxMeasures) ==
    /\ Len(measures) < maxMeasures
    /\ Gesture([e |-> add_measure(Ed), exc |-> "none"])

\* the Delete Measure button and the answer to its confirmation
DeleteMeasure ==
    \E reply \in {"Yes", "No"} :
        Gesture(delete_measure(Ed, reply))

\* the user changes the capo spin box to another value of its range
SetCapo(positions) ==
    \E position \in positions :
        /\ position # capo_spinbox
        /\ Gesture([e |-> spinbox_setValue(Ed, position), exc |-> "none"])

\* the Show Notes toggle
ToggleNotes == Gesture([e |-> toggle_notes(Ed, ~show_notes), exc |-> "none"])

(***************************************************************************)
(* The application window, LickHouseApp, and the tree view                  *)
(***************************************************************************)
\* on_file_selected for a .lick file the tree shows, then load_lick(path).
\* vanished: the file is removed by another program between the tree's
\* os.path.isfile and load_lick's own.
OnFileSelectedAt(path, vanished) ==
    /\ files[path].kind # "missing"
    /\ LET fs == IF vanished THEN [files EXCEPT ![path] = Missing] ELSE files
           r == app_load_lick(Ed, fs, path)
       IN  /\ SetEd(r.e)
           /\ files' = fs
           /\ current_lick_path' = IF r.failed THEN NoPath ELSE path
           /\ message' = IF r.failed THEN "Error Loading Lick" ELSE "none"
           /\ last_saved' = IF vanished THEN Forget(path) ELSE last_saved
    /\ raised' = "none"
    /\ UNCHANGED query

OnFileSelected ==
    \E path \in Paths, vanished \in BOOLEAN : OnFileSelectedAt(path, vanished)

\* on_file_selected for a folder of the tree
OnFolderSelected ==
    /\ current_lick_path' = NoPath
    /\ message' = "none"
    /\ raised' = "none"
    /\ SetEd(Ed)
    /\ UNCHANGED <<files, query, last_saved>>

\* what open(path, 'w') followed by a failed write leaves of the file: the
\* file is truncated on opening, and none or a part of the text arrives
FailedWrites == {EmptyFile, MalformedFile}

\* save_current_lick whose error branch forgets the path, as load_lick's does
SaveCurrentLick_forgets ==
    \E io_error \in {"none", "open"} :
        /\ SetEd(Ed)
        /\ raised' = "none"
        /\ UNCHANGED query
        /\ IF current_lick_path = NoPath
           THEN /\ message' = "No Lick Selected"
                /\ UNCHANGED <<current_lick_path, files, last_saved>>
           ELSE IF io_error = "open"
           THEN /\ message' = "Error Saving Lick"
                /\ current_lick_path' = NoPath
                /\ UNCHANGED <<files, last_saved>>
           ELSE /\ files' = [files EXCEPT ![current_lick_path] =
                                json_dump(saved_lick_data(Ed))]
                /\ last_saved' = [path |-> current_lick_path, lick |-> Lick(Ed)]
                /\ message' = "Lick Saved"
                /\ UNCHANGED current_lick_path

\* the Save Lick button: LickEditor.save_lick emits save_requested, whose slot
\* is save_current_lick.  io_error: open() fails, or the write after it does.
SaveCurrentLick ==
    \E io_error \in {"none", "open", "write"} :
        /\ SetEd(Ed)
        /\ raised' = "none"
        /\ UNCHANGED <<current_lick_path, query>>
        /\ IF current_lick_path = NoPath
           THEN /\ message' = "No Lick Selected"
                /\ UNCHANGED <<files, last_saved>>
           ELSE IF io_error = "open"
           THEN /\ message' = "Error Saving Lick"
                /\ UNCHANGED <<files, last_saved>>
           ELSE IF io_error = "write"
           THEN /\ message' = "Error Saving Lick"
                /\ \E left \in FailedWrites :
                       files' = [files EXCEPT ![current_lick_path] = left]
                /\ last_saved' = Forget(current_lick_path)
           ELSE /\ files' = [files EXCEPT ![current_lick_path] =
                                json_dump(saved_lick_data(Ed))]
                /\ last_saved' = [path |-> current_lick_path, lick |-> Lick(Ed)]
                /\ message' = "Lick Saved"

\* what delete_current_lick loads into the editor, with a measure too many
NewLickData_two == [name |-> "New Lick", measures |-> <<EmptyMeasure, EmptyMeasure>>]

NewLickData == [name |-> "New Lick", measures |-> <<EmptyMeasure>>]

\* delete_current_lick.  reply answers the confirmation; failure is what
\* os.remove raises.  Without a current lick the dialog "No Lick Selected"
\* asks to select a lick to delete.
DeleteCurrentLickOf(reply, failure) ==
    /\ raised' = "none"
    /\ UNCHANGED query
    /\ IF current_lick_path = NoPath
       THEN /\ message' = "Please select a lick to delete"
            /\ SetEd(Ed)
            /\ UNCHANGED <<current_lick_path, files, last_saved>>
       ELSE IF files[current_lick_path].kind = "missing"
       THEN /\ message' = "Selected file no longer exists"
            /\ current_lick_path' = NoPath
            /\ SetEd(Ed)
            /\ UNCHANGED <<files, last_saved>>
       ELSE IF reply = "No"
       THEN /\ message' = "none"
            /\ SetEd(Ed)
            /\ UNCHANGED <<current_lick_path, files, last_saved>>
       ELSE IF failure = "none"
       THEN /\ files' = [files EXCEPT ![current_lick_path] = Missing]
            /\ last_saved' = Forget(current_lick_path)
            /\ current_lick_path' = NoPath
            /\ SetEd(editor_load_lick(Ed, NewLickData).e)
            /\ message' = "Lick deleted"
       ELSE IF failure = "PermissionError"
       THEN /\ message' = "Permission denied"
            /\ SetEd(Ed)
            /\ UNCHANGED <<current_lick_path, files, last_saved>>
       ELSE /\ message' = "Error Deleting Lick"
            /\ current_lick_path' = NoPath
            /\ SetEd(editor_load_lick(Ed, NewLickData).e)
            /\ UNCHANGED <<files, last_saved>>

\* the Delete Lick button
DeleteCurrentLick ==
    \E reply \in {"Yes", "No"}, failure \in {"none", "PermissionError", "OSError"} :
        DeleteCurrentLickOf(reply, failure)

\* str.strip()
strip(text) == IF text = " " THEN "" ELSE text

\* str.isspace()
isspace(text) == text = " "

\* the file name f"{sanitized_name}.lick" of a lick name
lick_file_name(lick_name) ==
    CASE lick_name = "a" -> "a.lick"
      [] lick_name = "Untitled Lick" -> "Untitled Lick.lick"
      [] OTHER -> ".lick"

\* get_lick_info that returns the stripped name as it is
get_lick_info_no_default(typed, selected_dir) ==
    <<strip(typed), <<selected_dir, lick_file_name(strip(typed))>>>>

\* CreateLickDialog.get_lick_info: <<lick_name, lick_path>>
get_lick_info(typed, selected_dir) ==
    LET stripped == strip(typed)
        lick_name == IF stripped = "" THEN "Untitled Lick" ELSE stripped
    IN  <<lick_name, <<selected_dir, lick_file_name(lick_name)>>>>

\* create_new_lick for an accepted dialog with the name typed.  reply answers
\* the overwrite question; io_error: the write fails.
CreateNewLickOf(typed, reply, io_error) ==
    LET info == get_lick_info(typed, LickFolder)
        lick_name == info[1]
        lick_path == info[2]
        empty_lick == [name |-> lick_name, measures |-> <<EmptyMeasure>>]
    IN  /\ raised' = "none"
        /\ UNCHANGED query
        /\ IF lick_name = "" \/ isspace(lick_name)
           THEN /\ message' = "Invalid Name"
                /\ SetEd(Ed)
                /\ UNCHANGED <<current_lick_path, files, last_saved>>
           ELSE IF files[lick_path].kind # "missing" /\ reply = "No"
           THEN /\ message' = "none"
                /\ SetEd(Ed)
                /\ UNCHANGED <<current_lick_path, files, last_saved>>
           ELSE IF io_error
           THEN /\ message' = "Error Creating Lick"
                /\ SetEd(Ed)
                /\ UNCHANGED <<current_lick_path, files, last_saved>>
           ELSE /\ files' = [files EXCEPT ![lick_path] = json_dump(empty_lick)]
                /\ last_saved' = Forget(lick_path)
                /\ current_lick_path' = lick_path
                /\ SetEd(editor_load_lick(Ed, empty_lick).e)
                /\ message' = "Lick created"

\* the Create New Lick button
CreateNewLick(typedNames) ==
    \E typed \in typedNames, reply \in {"Yes", "No"}, io_error \in BOOLEAN :
        CreateNewLickOf(typed, reply, io_error)

\* CustomTreeView.delete_item on a .lick file of the tree
TreeDeleteItem ==
    \E path \in Paths, reply \in {"Yes", "No"}, io_error \in BOOLEAN :
        /\ files[path].kind # "missing"
        /\ raised' = "none"
        /\ SetEd(Ed)
        /\ UNCHANGED <<current_lick_path, query>>
        /\ IF reply = "No"
           THEN /\ message' = "none"
                /\ UNCHANGED <<files, last_saved>>
           ELSE IF io_error
           THEN /\ message' = "Could not delete file"
                /\ UNCHANGED <<files, last_saved>>
           ELSE /\ files' = [files EXCEPT ![path] = Missing]
                /\ last_saved' = Forget(path)
                /\ message' = "File deleted"

\* shutil.move(source_path, target_file) on file system fs, both in the tree:
\* a rename, which replaces a file at the target and, with the source as its
\* own target, changes nothing
shutil_move(fs, source_path, target_file) ==
    [p \in DOMAIN fs |-> IF p = target_file THEN fs[source_path]
                         ELSE IF p = source_path THEN Missing
                         ELSE fs[p]]

\* the loop body of the tree's dropEvent that moves without the question
move_url_overwrites(r, source_path, target_path, reply, io_error) ==
    IF ~endswith_lick(source_path) THEN r
    ELSE LET target_file == <<target_path, basename(source_path)>>
         IN  IF io_error \/ r.fs[source_path].kind = "missing"
             THEN [r EXCEPT !.message = "Could not move file"]
             ELSE [r EXCEPT !.fs = shutil_move(r.fs, source_path, target_file),
                            !.success = TRUE]

\* the loop body of CustomTreeView.dropEvent for one url; r holds the file
\* system, the last dialog shown and the success flag.  reply answers the
\* overwrite question; io_error: shutil.move raises.
move_url(r, source_path, target_path, reply, io_error) ==
    IF ~endswith_lick(source_path) THEN r
    ELSE LET target_file == <<target_path, basename(source_path)>>
             exists == r.fs[target_file].kind # "missing"
             asked == IF exists THEN [r EXCEPT !.message = "File Exists"] ELSE r
         IN  IF exists /\ reply = "No" THEN asked
             ELSE IF io_error \/ r.fs[source_path].kind = "missing"
             THEN [r EXCEPT !.message = "Could not move file"]
             ELSE [asked EXCEPT !.fs = shutil_move(r.fs, source_path, target_file),
                                !.success = TRUE]

\* the for loop of CustomTreeView.dropEvent over the first k urls
RECURSIVE move_urls(_, _, _, _, _, _)
move_urls(fs, urls, k, target_path, reply, io_error) ==
    IF k = 0 THEN [fs |-> fs, message |-> "none", success |-> FALSE]
    ELSE move_url(move_urls(fs, urls, k - 1, target_path, reply, io_error),
                  urls[k], target_path, reply, io_error)

\* the lists of files a drag can carry: a .lick file of the tree, alone or
\* after a file of another kind
DragLists == {<<p>> : p \in Paths} \cup {<<q, p>> : q \in AllPaths \ Paths, p \in Paths}

\* the drags the tree accepts, dragEnterEvent: files that exist
Drags == {urls \in DragLists : \A k \in 1..Len(urls) : files[urls[k]].kind # "missing"}

\* CustomTreeView.dropEvent: urls dropped on a folder of the tree, or on a
\* file of that folder.  reply answers every overwrite question of the drop.
TreeDropOf(urls, target_path, reply, io_error) ==
    LET r == move_urls(files, urls, Len(urls), target_path, reply, io_error)
    IN  /\ files' = r.fs
        /\ message' = r.message
        /\ last_saved' = IF last_saved.path # NoPath
                             /\ r.fs[last_saved.path] # files[last_saved.path]
                          THEN NoSave ELSE last_saved
        /\ raised' = "none"
        /\ SetEd(Ed)
        /\ UNCHANGED <<current_lick_path, query>>

TreeDrop ==
    \E urls \in Drags, target_path \in Folders, reply \in {"Yes", "No"},
       io_error \in BOOLEAN :
        TreeDropOf(urls, target_path, reply, io_error)

(***************************************************************************)
(* Spec: the whole application, with a small palette of gestures.  The     *)
(* tree's drag and drop is in SpecTree.                                     *)
(***************************************************************************)
AppDropPoints == {<<100, 40>>}
AppDropTexts == {"5"}
AppClickPoints == {<<100, 40>>}
AppCapoPositions == {0, 5}
\* the names typed in the create dialog
AppTypedNames == {"a"}

Next ==
    \/ OnFileSelected
    \/ OnFolderSelected
    \/ SaveCurrentLick
    \/ DeleteCurrentLick
    \/ CreateNewLick(AppTypedNames)
    \/ TreeDeleteItem
    \/ Drop(AppDropPoints, AppDropTexts, MaxAppNotes)
    \/ RightClick(AppClickPoints)
    \/ Previous
    \/ NextMeasure
    \/ AddMeasure(MaxAppMeasures)
    \/ DeleteMeasure
    \/ SetCapo(AppCapoPositions)
    \/ ToggleNotes

Spec == Init /\ [][Next]_vars

(***************************************************************************)
(* SpecEdit: the editor alone, from construction, with a wider palette      *)
(***************************************************************************)
\* a point on string 0, one on string 2, one left of the nut (outside the
\* fretboard)
EditDropPoints == {<<100, 40>>, <<220, 100>>, <<20, 40>>}
EditDropTexts == {"3", "h", "13", "x", Sup2}
\* exactly 10 and 11 units from <<100, 40>>, on <<220, 100>>, on nothing
EditClickPoints == {<<110, 50>>, <<111, 40>>, <<220, 100>>, <<500, 160>>}
EditCapoPositions == {0, 12}

InitEdit ==
    /\ Started(NewEditor)
    /\ files = NoFiles

NextEdit ==
    \/ Drop(EditDropPoints, EditDropTexts, MaxNotes)
    \/ RightClick(EditClickPoints)
    \/ Previous
    \/ NextMeasure
    \/ AddMeasure(MaxMeasures)
    \/ DeleteMeasure
    \/ SetCapo(EditCapoPositions)

SpecEdit == InitEdit /\ [][NextEdit]_vars

(***************************************************************************)
(* SpecPitch: get_note_at_position under every capo.  draw_note_names asks  *)
(* it for every string and fret of the fretboard.                           *)
(***************************************************************************)
QueryPitch ==
    \E string_idx \in 0..(string_count - 1), fret \in 0..fret_count :
        /\ query' = [fn |-> "get_note_at_position", capo |-> capo_position,
                     string_idx |-> string_idx, fret |-> fret,
                     result |-> get_note_at_position(capo_position, string_idx, fret)]
        /\ UNCHANGED <<title_label, measures, current_measure, capo_position,
                       capo_spinbox, show_notes, note_sequence_label, key_label,
                       current_lick_path, files, message, raised, last_saved>>

NextPitch ==
    \/ SetCapo(0..fret_count)
    \/ QueryPitch

SpecPitch == InitEdit /\ [][NextPitch]_vars

(***************************************************************************)
(* SpecKey: detect_key on the measures that drops on string 1 build: the    *)
(* thirteen frets of the B string give every pitch name.  The editor's      *)
(* right-click handler refreshes the key label.                             *)
(***************************************************************************)
KeyNotes ==
    {[string |-> 1, fret |-> f, x |-> left_margin + f * fret_spacing,
      y |-> top_margin + 1 * string_spacing] : f \in 0..fret_count}
KeyCapoPositions == {0, 5}

\* the capo set on the new editor, one measure added, frets dropped on it
InitKey ==
    /\ \E c \in KeyCapoPositions, notes \in SeqsUpTo(KeyNotes, MaxKeyNotes) :
           Started([NewEditor EXCEPT !.capo_position = c, !.capo_spinbox = c,
                                     !.measures = <<[notes |-> notes]>>])
    /\ files = NoFiles

NextKey == EditorRightClick

SpecKey == InitKey /\ [][NextKey]_vars

(***************************************************************************)
(* SpecFile: one lick file that is loaded, edited and saved.  The file      *)
(* starts as an object without name and measures, one with an empty measure *)
(* list and a capo past the range, a lick of two measures with a capo, a    *)
(* lick with a placement, or one whose capo_position is no number.          *)
(***************************************************************************)
FileContents == {BareFile, EmptyListFile, CapoFile, TestFile, BadCapoFile}

InitFile ==
    /\ Started(NewEditor)
    /\ \E c \in FileContents :
           files = [NoFiles EXCEPT ![<<LickFolder, "a.lick">>] = c]

NextFile ==
    \/ OnFileSelected
    \/ SaveCurrentLick
    \/ Drop(AppDropPoints, AppDropTexts, MaxFileNotes)
    \/ RightClick(AppClickPoints)
    \/ Previous
    \/ NextMeasure
    \/ AddMeasure(MaxFileMeasures)
    \/ DeleteMeasure
    \/ SetCapo(AppCapoPositions)
    \/ ToggleNotes

SpecFile == InitFile /\ [][NextFile]_vars

(***************************************************************************)
(* SpecNav: the measure list.  Measures are added, filled by drops, walked  *)
(* and deleted; a lick of two measures can be loaded, and one whose load    *)
(* fails after it has replaced the measures.                                *)
(***************************************************************************)
NavContents == {CapoFile, BadCapoTwoFile}

InitNav ==
    /\ Started(NewEditor)
    /\ \E c \in NavContents :
           files = [NoFiles EXCEPT ![<<LickFolder, "a.lick">>] = c]

NextNav ==
    \/ OnFileSelected
    \/ Drop(AppDropPoints, AppDropTexts, MaxNavNotes)
    \/ Previous
    \/ NextMeasure
    \/ AddMeasure(MaxNavMeasures)
    \/ DeleteMeasure

SpecNav == InitNav /\ [][NextNav]_vars

(***************************************************************************)
(* SpecGeom: the geometry of the fretboard.  query holds the scene position *)
(* of the pointer, drawn from the row y = 40 and the column x = 40 of the   *)
(* fretboard rectangle, each running 10 units past it, and from the points  *)
(* around the far corner; a drop lands there, and get_fret_from_x is asked  *)
(* for its x.                                                               *)
(***************************************************************************)
GeomPoints ==
    {<<x, top_margin>> : x \in (left_margin - 10)..(left_margin + fret_count * fret_spacing + 10)}
    \cup {<<left_margin, y>> :
              y \in (top_margin - 10)..(top_margin + (string_count - 1) * string_spacing + 10)}
    \cup {<<760, 190>>, <<761, 190>>, <<760, 191>>, <<761, 191>>}

InitGeom ==
    /\ Started(NewEditor)
    /\ files = NoFiles

PointAt ==
    \E pt \in GeomPoints :
        /\ query.fn = "none"
        /\ query' = [fn |-> "point", x |-> pt[1], y |-> pt[2]]
        /\ UNCHANGED <<title_label, measures, current_measure, capo_position,
                       capo_spinbox, show_notes, note_sequence_label, key_label,
                       current_lick_path, files, message, raised, last_saved>>

QueryFret ==
    /\ query.fn = "point"
    /\ query' = [fn |-> "get_fret_from_x", x |-> query.x, y |-> query.y,
                 result |-> get_fret_from_x(query.x)]
    /\ UNCHANGED <<title_label, measures, current_measure, capo_position,
                   capo_spinbox, show_notes, note_sequence_label, key_label,
                   current_lick_path, files, message, raised, last_saved>>

DropAtPointer ==
    /\ query.fn # "none"
    /\ Drop({<<query.x, query.y>>}, AppDropTexts, MaxAppNotes)

NextGeom ==
    \/ PointAt
    \/ QueryFret
    \/ DropAtPointer
    \/ AddMeasure(MaxAppMeasures)

SpecGeom == InitGeom /\ [][NextGeom]_vars

(***************************************************************************)
(* SpecKeyMix: detect_key on measures that mix fretted notes of the B      *)
(* string with technique markers; under capo 5 the frets 8 and 12 are past  *)
(* the twelfth fret.                                                        *)
(***************************************************************************)
MixNotes ==
    {[string |-> 1, fret |-> f, x |-> left_margin + f * fret_spacing,
      y |-> top_margin + 1 * string_spacing] : f \in {1, 5, 8, 12}}
    \cup {[string |-> 1, technique |-> "h", x |-> 100, y |-> top_margin + 1 * string_spacing]}

InitKeyMix ==
    /\ \E c \in KeyCapoPositions, notes \in SeqsUpTo(MixNotes, MaxMixNotes) :
           Started([NewEditor EXCEPT !.capo_position = c, !.capo_spinbox = c,
                                     !.measures = <<[notes |-> notes]>>])
    /\ files = NoFiles

SpecKeyMix == InitKeyMix /\ [][NextKey]_vars

(***************************************************************************)
(* SpecSeq: the note sequence of one measure.  Its placements are drawn     *)
(* from a fretted note and a marker left of x = 100, two fretted notes at   *)
(* x = 100 and a marker at x = 120; under capo 5 the twelfth fret has no    *)
(* pitch.  The sequence is read by get_note_sequence and shown by the       *)
(* editor's label.                                                          *)
(***************************************************************************)
SeqNotes ==
    {[string |-> 0, fret |-> 3, x |-> 100, y |-> 40],
     [string |-> 1, fret |-> 1, x |-> 100, y |-> 70],
     [string |-> 0, technique |-> "h", x |-> 120, y |-> 40],
     [string |-> 2, fret |-> 12, x |-> 60, y |-> 100],
     [string |-> 3, technique |-> "p", x |-> 60, y |-> 130]}

InitSeq ==
    /\ \E c \in KeyCapoPositions, notes \in SeqsUpTo(SeqNotes, MaxSeqNotes) :
           Started([NewEditor EXCEPT !.capo_position = c, !.capo_spinbox = c,
                                     !.measures = <<[notes |-> notes]>>])
    /\ files = NoFiles

QuerySequence ==
    /\ query' = [fn |-> "get_note_sequence",
                 result |-> get_note_sequence(capo_position,
                                Get(measures[current_measure + 1], "notes", <<>>))]
    /\ UNCHANGED <<title_label, measures, current_measure, capo_position,
                   capo_spinbox, show_notes, note_sequence_label, key_label,
                   current_lick_path, files, message, raised, last_saved>>

NextSeq ==
    \/ EditorRightClick
    \/ QuerySequence

SpecSeq == InitSeq /\ [][NextSeq]_vars

(***************************************************************************)
(* SpecIdem: licks that are loaded and saved and never edited.  Both paths  *)
(* can hold a lick from elsewhere: with a capo, with a capo past the range  *)
(* and neither name nor measures, with a placement, with two measures that  *)
(* differ, or with a capo_position that is no number.                       *)
(***************************************************************************)
IdemContents == {CapoFile, EmptyListFile, TestFile, TwoFile, BadCapoFile}

InitIdem ==
    /\ Started(NewEditor)
    /\ \E c \in IdemContents, d \in IdemContents \cup {Missing} :
           files = [NoFiles EXCEPT ![<<LickFolder, "a.lick">>] = c,
                                   ![<<LickFolder, "Untitled Lick.lick">>] = d]

NextIdem ==
    \/ OnFileSelected
    \/ SaveCurrentLick

SpecIdem == InitIdem /\ [][NextIdem]_vars

(***************************************************************************)
(* SpecTree: the licks on disk and the tree view.  "E Licks" holds a lick    *)
(* and a text file, "A Licks" can hold a lick of the same file name; licks  *)
(* are selected and saved, deleted from the tree's context menu and moved   *)
(* between the folders by drag and drop.                                    *)
(***************************************************************************)
InitTree ==
    /\ Started(NewEditor)
    /\ \E d \in {Missing, TwoFile} :
           files = [NoFiles EXCEPT ![<<LickFolder, "a.lick">>] = TestFile,
                                   ![<<OtherFolder, "a.lick">>] = d,
                                   ![<<LickFolder, "notes.txt">>] = TextFile]

NextTree ==
    \/ OnFileSelected
    \/ SaveCurrentLick
    \/ TreeDeleteItem
    \/ TreeDrop

SpecTree == InitTree /\ [][NextTree]_vars

(***************************************************************************)
(* SpecLicks: the window's lick operations, without editing.  A lick is on  *)
(* disk at the start, with a placement, with a capo, or with a              *)
(* capo_position that is no number; licks are selected, folders are         *)
(* selected, licks are created, saved and deleted.                          *)
(***************************************************************************)
\* the names typed in the create dialog: a name, nothing, a blank
LickTypedNames == {"a", "", " "}

InitLicks ==
    /\ Started(NewEditor)
    /\ \E c \in {TestFile, CapoFile, BadCapoFile} :
           files = [NoFiles EXCEPT ![<<LickFolder, "a.lick">>] = c]

NextLicks ==
    \/ OnFileSelected
    \/ OnFolderSelected
    \/ SaveCurrentLick
    \/ DeleteCurrentLick
    \/ CreateNewLick(LickTypedNames)

SpecLicks == InitLicks /\ [][NextLicks]_vars

(***************************************************************************)
(* SpecClick: right-clicks on a lick of two measures.  The first measure    *)
(* is filled with placements around (100, 40): on it, 5 units off both      *)
(* ways, 21 units to the right, and 60 units below; the same placement can  *)
(* be there more than once.  The clicks are those of SpecEdit.              *)
(***************************************************************************)
ClickNotes ==
    {[string |-> 0, fret |-> 3, x |-> 100, y |-> 40],
     [string |-> 0, technique |-> "h", x |-> 105, y |-> 45],
     [string |-> 0, fret |-> 7, x |-> 121, y |-> 40],
     [string |-> 2, fret |-> 5, x |-> 105, y |-> 100]}

InitClick ==
    /\ \E notes \in [1..MaxClickNotes -> ClickNotes] :
           Started([NewEditor EXCEPT
                        !.measures = <<[notes |-> notes], [notes |-> <<TestNote>>]>>])
    /\ files = NoFiles

NextClick ==
    \/ RightClick(EditClickPoints)
    \/ Previous
    \/ NextMeasure

SpecClick == InitClick /\ [][NextClick]_vars

(***************************************************************************)
(* Claims                                                                   *)
(***************************************************************************)
\* the placements of the measure on display
CurrentNotes == measures[current_measure + 1].notes

\* the editor's document: name, measures, capo and place in it
Document == <<title_label, measures, capo_position, current_measure>>

\* the step loads the file at path into the editor without a load error
LoadsFrom(path) == OnFileSelectedAt(path, FALSE) /\ message' = "none"

\* C1: a successful load of the file that the last save wrote gives back the
\* lick the editor held at that save: name, capo position, measures and, in
\* each measure, the placements in order.
C1_RoundTrip ==
    [][\A path \in Paths :
           (last_saved.path = path /\ LoadsFrom(path))
               => /\ title_label' = last_saved.lick.name
                  /\ capo_position' = last_saved.lick.capo_position
                  /\ measures' = last_saved.lick.measures]_vars

\* C2: in every reachable state, from application start on, there is at least
\* one measure and the current measure index is one of the measure list.
C2_MeasureIndexInRange ==
    /\ Len(measures) >= 1
    /\ 0 <= current_measure
    /\ current_measure <= Len(measures) - 1

\* the notes without the first one, in stored order, whose stored x and y are
\* both within the tolerance of (x, y); the notes themselves when there is none
remove_first_match(notes, x, y) ==
    LET hits == {i \in 1..Len(notes) : within_note(notes[i], x, y)}
    IN  IF hits = {} THEN notes
        ELSE LET first == CHOOSE i \in hits : \A j \in hits : i <= j
             IN  SubSeq(notes, 1, first - 1) \o SubSeq(notes, first + 1, Len(notes))

\* C3: a right-click removes from the current measure exactly the first
\* placement, in stored order, within the tolerance of the click, also when
\* several are within it, and removes nothing when none is.
C3_RemoveFirstMatch ==
    [][\A pt \in EditClickPoints :
           (current_measure < Len(measures) /\ RightClickAt(pt))
               => measures' = [measures EXCEPT ![current_measure + 1].notes =
                                   remove_first_match(@, pt[1], pt[2])]]_vars

\* C4: a load that ends in a reported load error leaves the editor's name,
\* measures, placements, capo position and current measure index as they were.
C4_LoadErrorKeepsState ==
    [][message' = "Error Loading Lick" => Document' = Document]_vars

\* C5: after creating a new lick, and after loading a file that has no
\* capo_position, the capo position is 0 whatever it was before.
C5_CapoDefaultsToZero ==
    [][(\/ message' = "Lick created"
        \/ \E path \in Paths :
               LoadsFrom(path) /\ "capo_position" \notin DOMAIN files[path].value)
           => capo_position' = 0]_vars

\* C6: every save writes the name and the measures, and writes capo_position
\* when the lick has one.  A capo position other than 0 was set by the user
\* or came from the loaded file.
C6_SaveWritesCapo ==
    [][message' = "Lick Saved"
           => LET written == files'[current_lick_path].value
              IN  /\ "name" \in DOMAIN written /\ written.name = title_label
                  /\ "measures" \in DOMAIN written /\ written.measures = measures
                  /\ capo_position # 0 => "capo_position" \in DOMAIN written]_vars

\* C7: every placement of every measure has a string in 0..5 and, when it is
\* a fretted note, a fret in 0..12, whether dropped or loaded from a file.
C7_PlacementsInRange ==
    \A m \in 1..Len(measures) : \A i \in 1..Len(measures[m].notes) :
        LET note == measures[m].notes[i]
        IN  /\ note.string \in 0..(string_count - 1)
            /\ "fret" \in DOMAIN note => note.fret \in 0..fret_count

\* C8: no editing gesture raises an error, in any reachable state and for any
\* drop text or click position.
C8_NoGestureRaises == raised = "none"

\* C9: with capo c, the pitch at (s, 0) is the table's entry (s, c); the pitch
\* at (s, f) for f > 0 is the table's entry (s, c + f) when c + f <= 12; and
\* the pitch is undefined exactly when f > 0 and c + f > 12.
C9_CapoTransposition ==
    query.fn = "get_note_at_position" =>
        LET s == query.string_idx
            f == query.fret
            c == query.capo
        IN  /\ f = 0 => query.result = string_notes[s][c + 1]
            /\ (f > 0 /\ c + f <= 12) => query.result = string_notes[s][c + f + 1]
            /\ query.result = None <=> (f > 0 /\ c + f > 12)

\* C9's case: a fretted note under a capo that lands on the twelfth fret
C9_Witness ==
    /\ query.fn = "get_note_at_position"
    /\ query.capo = 5 /\ query.fret = 7 /\ query.string_idx = 0
    /\ query.result = "E"

\* the count of the fretted notes of pitch name under capo
Histogram(capo, notes, name) ==
    Cardinality({i \in 1..Len(notes) :
        /\ "fret" \in DOMAIN notes[i]
        /\ get_note_at_position(capo, notes[i].string, notes[i].fret) = name})

\* the major triad on the i-th pitch of the chromatic scale: root, the pitch
\* four semitones up and the pitch seven semitones up
MajorTriad(i) ==
    <<Chromatic[i], Chromatic[((i + 3) % 12) + 1], Chromatic[((i + 6) % 12) + 1]>>

TriadScore(capo, notes, i) ==
    Histogram(capo, notes, MajorTriad(i)[1]) + Histogram(capo, notes, MajorTriad(i)[2])
        + Histogram(capo, notes, MajorTriad(i)[3])

\* the scores of the twelve major triads, by root in the order C..B
TriadScores(capo, notes) ==
    <<TriadScore(capo, notes, 1), TriadScore(capo, notes, 2), TriadScore(capo, notes, 3),
      TriadScore(capo, notes, 4), TriadScore(capo, notes, 5), TriadScore(capo, notes, 6),
      TriadScore(capo, notes, 7), TriadScore(capo, notes, 8), TriadScore(capo, notes, 9),
      TriadScore(capo, notes, 10), TriadScore(capo, notes, 11), TriadScore(capo, notes, 12)>>

\* the roots with the highest score
TopRoots(capo, notes) ==
    LET scores == TriadScores(capo, notes)
    IN  {i \in 1..12 : \A j \in 1..12 : scores[j] <= scores[i]}

ExpectedKey(capo, notes) ==
    LET scores == TriadScores(capo, notes)
        top == {i \in 1..12 : \A j \in 1..12 : scores[j] <= scores[i]}
        first == CHOOSE i \in top : \A j \in top : i <= j
    IN  IF scores[first] = 0 THEN NoKeyDetected
        ELSE <<"Key of", Chromatic[first]>>

\* the pitch names the fretted notes resolve to
PitchNames(capo, notes) ==
    {name \in {Chromatic[i] : i \in 1..12} : Histogram(capo, notes, name) > 0}

\* C10: the key shown is the root of the major triad with the highest sum of
\* the counts of root, third and fifth, the first such root in the order C..B;
\* notes resolving to C, E and G give "Key of C"; no key is detected when
\* every score is 0.
C10_DetectKey ==
    key_label # <<>> =>
        /\ key_label = ExpectedKey(capo_position, CurrentNotes)
        /\ PitchNames(capo_position, CurrentNotes) = {"C", "E", "G"}
               => key_label = <<"Key of", "C">>

\* C10's case: several roots share the highest score and the first is not C
C10_Witness ==
    /\ Len(key_label) = 2
    /\ key_label[2] # "C"
    /\ Cardinality(TopRoots(capo_position, CurrentNotes)) >= 2

\* whether the note is a fretted note with a pitch under capo: an open string,
\* or a fret that with the capo is not past the twelfth
HasPitch(capo, note) ==
    "fret" \in DOMAIN note /\ (note.fret = 0 \/ capo + note.fret <= 12)

\* the notes that have a pitch under capo, in their order
Resolvable(capo, notes) ==
    LET Test(note) == HasPitch(capo, note)
    IN  SelectSeq(notes, Test)

\* C11: the key shown for a measure is the key of its notes that have a pitch
\* under the capo: technique markers and fretted notes past the twelfth fret
\* change nothing, and a measure of only such placements has no key detected.
C11_IgnoresUnresolved ==
    key_label # <<>> =>
        LET kept == Resolvable(capo_position, CurrentNotes)
        IN  /\ key_label = detect_key(capo_position, kept)
            /\ kept = <<>> => key_label = NoKeyDetected

\* C11's case: a key is detected from one pitched note next to a technique
\* marker and a fretted note past the twelfth fret
C11_Witness ==
    /\ Len(key_label) = 2
    /\ Len(CurrentNotes) = 3
    /\ Len(Resolvable(capo_position, CurrentNotes)) = 1
    /\ \E i \in 1..3 : "technique" \in DOMAIN CurrentNotes[i]
    /\ \E i \in 1..3 : "fret" \in DOMAIN CurrentNotes[i]
                          /\ ~HasPitch(capo_position, CurrentNotes[i])

\* the texts of the palette's buttons: a fret number 0..12 or a technique
IsFretText(text) == int_ok(text) /\ int(text) \in 0..12
IsTechniqueText(text) == text \in {"/", "h", "p"}

\* the placement that a drop of text at (x, y) is to create
DroppedNote(x, y, text) ==
    LET string == round(y - 40, 30)
    IN  IF IsTechniqueText(text)
        THEN [string |-> string, technique |-> text, x |-> x, y |-> y]
        ELSE [string |-> string, fret |-> int(text), x |-> x, y |-> y]

\* C12: a drop inside the fretboard rectangle of a fret number 0..12 or of a
\* technique appends exactly one placement, with the string computed from y,
\* the dropped fret or technique and the drop's x and y, at the end of the
\* current measure; every other placement and every other measure stay.
C12_DropAppends ==
    [][\A pt \in AppDropPoints, text \in AppDropTexts :
           (/\ 40 <= pt[1] /\ pt[1] <= 760 /\ 40 <= pt[2] /\ pt[2] <= 190
            /\ IsFretText(text) \/ IsTechniqueText(text)
            /\ DropAt(pt, text, MaxAppNotes))
               => /\ current_measure < Len(measures)
                  /\ measures' = [measures EXCEPT ![current_measure + 1].notes =
                                      Append(@, DroppedNote(pt[1], pt[2], text))]]_vars

\* C13: for every point of the fretboard rectangle the string of a placement
\* dropped there is in 0..5 and get_fret_from_x of its x is in 0..12; a drop
\* at a point outside the rectangle creates no placement.
C13_GeometryInRange ==
    LET inside == /\ 40 <= query.x /\ query.x <= 760
                  /\ 40 <= query.y /\ query.y <= 190
    IN  query.fn # "none" =>
        /\ (inside /\ query.fn = "get_fret_from_x") => query.result \in 0..12
        /\ inside => \A m \in 1..Len(measures) : \A i \in 1..Len(measures[m].notes) :
                         measures[m].notes[i].string \in 0..5
        /\ ~inside => TotalNotes(measures) = 0

\* C13's case: a placement dropped on the lowest string at the bottom edge
C13_Witness ==
    /\ query.fn = "get_fret_from_x"
    /\ query.y = 190
    /\ TotalNotes(measures) = 1
    /\ measures[current_measure + 1].notes[1].string = 5

\* s without the element of index i (from 0)
WithoutIndex(s, i) == [k \in 1..(Len(s) - 1) |-> IF k <= i THEN s[k] ELSE s[k + 1]]

\* C14: delete measure leaves the measure list and the index alone when at
\* most one measure exists or the user declines; when it removes, more than
\* one measure existed, the user confirmed, exactly the measure at the current
\* index is gone, and the index is the old one, or the new last one when the
\* last measure was deleted.
C14_DeleteMeasure ==
    [][\A reply \in {"Yes", "No"} :
           Gesture(delete_measure(Ed, reply))
               => /\ (Len(measures) <= 1 \/ reply = "No")
                         => (measures' = measures /\ current_measure' = current_measure)
                  /\ measures' # measures
                         => /\ Len(measures) > 1 /\ reply = "Yes"
                            /\ current_measure < Len(measures)
                            /\ measures' = WithoutIndex(measures, current_measure)
                            /\ current_measure' =
                                   IF current_measure = Len(measures) - 1
                                   THEN Len(measures) - 2 ELSE current_measure
                  /\ (/\ Len(measures) > 1 /\ reply = "Yes"
                      /\ current_measure < Len(measures))
                         => measures' # measures]_vars

\* C14's case: the loaded lick of two measures after one was deleted
C14_Witness ==
    /\ title_label = "Capo"
    /\ Len(measures) = 1
    /\ current_measure = 0

\* s with v put in at index i (from 0), 0 <= i <= Len(s)
WithAt(s, i, v) ==
    [k \in 1..(Len(s) + 1) |-> IF k <= i THEN s[k] ELSE IF k = i + 1 THEN v ELSE s[k - 1]]

\* C15: add measure puts one empty measure right after the current index and
\* makes it the current measure: the index and the count grow by 1, and the
\* measures before and after keep their content and order.
C15_AddMeasure ==
    [][AddMeasure(MaxNavMeasures)
           => /\ Len(measures') = Len(measures) + 1
              /\ current_measure' = current_measure + 1
              /\ current_measure < Len(measures)
              /\ measures' = WithAt(measures, current_measure + 1, [notes |-> <<>>])]_vars

\* C16: previous and next leave the measure list alone; the index changes by
\* one step only, previous only above 0 and next only below the last index,
\* neither at its boundary; an index of the list does move when it is not at
\* the boundary.
C16_NavigationClamped ==
    [][/\ Previous
           => /\ measures' = measures
              /\ current_measure = 0 => current_measure' = current_measure
              /\ current_measure' # current_measure
                     => (current_measure > 0 /\ current_measure' = current_measure - 1)
              /\ (0 < current_measure /\ current_measure < Len(measures))
                     => current_measure' = current_measure - 1
       /\ NextMeasure
           => /\ measures' = measures
              /\ current_measure >= Len(measures) - 1
                     => current_measure' = current_measure
              /\ current_measure' # current_measure
                     => (/\ current_measure < Len(measures) - 1
                         /\ current_measure' = current_measure + 1)
              /\ current_measure < Len(measures) - 1
                     => current_measure' = current_measure + 1]_vars

\* C16's case: the loaded lick of two measures with its last measure current
C16_Witness ==
    /\ title_label = "Capo"
    /\ Len(measures) = 2
    /\ current_measure = 1

\* C17: the capo position is in 0..12 in every reachable state; a load that
\* succeeds takes the file's integer capo_position clamped to 0..12; and
\* setting the capo leaves the measures, with every placement's fields, and
\* the current index as they were.
C17_CapoClamped ==
    /\ capo_position \in 0..12
    /\ [][/\ capo_position' \in 0..12
          /\ \A path \in Paths :
                 (/\ files[path].kind = "json" /\ files[path].type = "object"
                  /\ "capo_position" \in DOMAIN files[path].value
                  /\ "int" \in DOMAIN files[path].value.capo_position)
                     => LET c == files[path].value.capo_position.int
                        IN  \/ capo_position' = IF c < 0 THEN 0 ELSE IF c > 12 THEN 12 ELSE c
                            \/ ~LoadsFrom(path)
          /\ \A position \in AppCapoPositions :
                 \/ /\ capo_position' = position
                    /\ measures' = measures
                    /\ current_measure' = current_measure
                 \/ ~SetCapo({position})]_vars

\* C17's case: the file with capo_position 99 and no name is loaded
C17_Witness ==
    /\ title_label = "a"
    /\ capo_position = 12
    /\ capo_spinbox = 12

C19_SaveErrorKeepsState ==
    [][message' = "Error Saving Lick"
           => /\ Document' = Document
              /\ current_lick_path # NoPath
              /\ current_lick_path' = current_lick_path]_vars

\* C19's case: a failed save of an edited lick
C19_Witness ==
    /\ message = "Error Saving Lick"
    /\ current_lick_path # NoPath
    /\ TotalNotes(measures) >= 1

\* a step of one of the editing gestures
EditingGesture ==
    \/ Drop(AppDropPoints, AppDropTexts, MaxFileNotes)
    \/ RightClick(AppClickPoints)
    \/ Previous
    \/ NextMeasure
    \/ AddMeasure(MaxFileMeasures)
    \/ DeleteMeasure
    \/ SetCapo(AppCapoPositions)
    \/ ToggleNotes

\* C20: place, remove, previous, next, add measure, delete measure, set capo
\* and the toggle of note names leave the content of every file as it was.
C20_OnlySaveWrites ==
    [][files' = files \/ ~EditingGesture]_vars

\* C20's case: the editor's measures differ from those of the file that the
\* last save wrote
C20_Witness ==
    /\ current_lick_path # NoPath
    /\ last_saved.path = current_lick_path
    /\ files[current_lick_path] = json_dump([name |-> last_saved.lick.name,
                                             measures |-> last_saved.lick.measures])
    /\ measures # last_saved.lick.measures

\* the indices of notes in non-decreasing order of x, equal x by index
ByX(notes) ==
    LET before(i, j) == notes[i].x < notes[j].x \/ (notes[i].x = notes[j].x /\ i < j)
        rank(i) == Cardinality({j \in 1..Len(notes) : before(j, i)}) + 1
    IN  [k \in 1..Len(notes) |-> CHOOSE i \in 1..Len(notes) : rank(i) = k]

\* what a placement shows under capo: the pitch of the string's table for a
\* fretted note, the symbol for a technique marker
Shown(capo, note) ==
    IF "fret" \in DOMAIN note
    THEN string_notes[note.string][(IF note.fret = 0 THEN capo ELSE capo + note.fret) + 1]
    ELSE note.technique

ExpectedSequence(capo, notes) ==
    LET order == ByX(notes)
        ordered == [k \in 1..Len(notes) |-> notes[order[k]]]
        listed(note) == "technique" \in DOMAIN note \/ HasPitch(capo, note)
        kept == SelectSeq(ordered, listed)
    IN  [k \in 1..Len(kept) |-> Shown(capo, kept[k])]

\* C21: the note sequence of a measure lists its placements in non-decreasing
\* order of stored x, equal x in insertion order, with the pitch name under
\* the capo for a fretted note and the symbol for a technique marker, and
\* without the fretted notes that have no pitch; string 0 fret 3 at x = 100
\* and a marker "h" at x = 120 with no capo give G, h.
C21_NoteSequence ==
    LET expected == ExpectedSequence(capo_position, CurrentNotes)
        example == <<[string |-> 0, fret |-> 3, x |-> 100, y |-> 40],
                     [string |-> 0, technique |-> "h", x |-> 120, y |-> 40]>>
    IN  /\ key_label # <<>>
               => /\ note_sequence_label = expected
                  /\ (CurrentNotes = example /\ capo_position = 0)
                         => note_sequence_label = <<"G", "h">>
        /\ (query.fn = "get_note_sequence" /\ CurrentNotes # <<>>)
               => query.result = [names |-> expected]

\* C21's case: a marker stored first is listed last, after two fretted notes
\* of equal x in the order they were stored
C21_Witness ==
    /\ CurrentNotes = <<[string |-> 0, technique |-> "h", x |-> 120, y |-> 40],
                        [string |-> 0, fret |-> 3, x |-> 100, y |-> 40],
                        [string |-> 1, fret |-> 1, x |-> 100, y |-> 70]>>
    /\ capo_position = 0
    /\ note_sequence_label = <<"G", "C", "h">>
    /\ query.fn = "get_note_sequence"

\* C22: a lick is loaded and saved unmodified, the saved file is loaded and
\* saved unmodified again: the second save leaves the content it finds in the
\* file.  No step of SpecIdem modifies the lick, and last_saved.path is the
\* current path when the file there is the one an earlier save wrote.
C22_LoadSaveIdempotent ==
    [][(message' = "Lick Saved" /\ last_saved.path = current_lick_path)
           => files'[current_lick_path] = files[current_lick_path]]_vars

\* C22's case: the second save of the lick "Capo".  Its own file set the capo
\* to 5 at the first load; the capo is 12 after the other file was loaded and
\* the saved file, which holds no capo_position, was loaded again.
C22_Witness ==
    /\ message = "Lick Saved"
    /\ current_lick_path = <<LickFolder, "a.lick">>
    /\ last_saved.path = current_lick_path
    /\ title_label = "Capo"
    /\ capo_position = 12
    /\ files[current_lick_path] = json_dump([name |-> "Capo",
                                             measures |-> <<EmptyMeasure, EmptyMeasure>>])

\* C23: a drop of a .lick file on a folder that holds a file of the same
\* name replaces that file only after the overwrite question was answered
\* with yes; answered with no, the source stays and the target keeps its
\* content; and a file that is no .lick file is not moved by any drop.
C23_MoveAsksBeforeOverwrite ==
    [][\A urls \in DragLists, target_path \in Folders, reply \in {"Yes", "No"},
          io_error \in BOOLEAN :
           \/ /\ \A q \in AllPaths \ Paths : files'[q] = files[q]
              /\ \A k \in 1..Len(urls) :
                     LET source_path == urls[k]
                         target_file == <<target_path, source_path[2]>>
                     IN  (source_path \in Paths /\ files[target_file].kind # "missing")
                             => /\ reply = "No"
                                       => /\ files'[source_path] = files[source_path]
                                          /\ files'[target_file] = files[target_file]
                                /\ files'[target_file] # files[target_file]
                                       => (reply = "Yes" /\ message' = "File Exists")
           \/ ~(/\ \A k \in 1..Len(urls) : files[urls[k]].kind # "missing"
                /\ TreeDropOf(urls, target_path, reply, io_error))]_vars

\* C23's case: the lick of "E Licks" has replaced the lick of the same file
\* name in "A Licks" after the overwrite question, the text file is in place
C23_Witness ==
    /\ message = "File Exists"
    /\ files[<<OtherFolder, "a.lick">>] = TestFile
    /\ files[<<LickFolder, "a.lick">>] = Missing
    /\ files[<<LickFolder, "notes.txt">>] = TextFile

\* C24: a deletion of the current lick that ends in a reported failure, for
\* want of permission or for another reason, leaves the file in place and the
\* editor's name, measures, placements, capo position and current measure
\* index, and the current lick path, as they were.
C24_DeleteErrorKeepsState ==
    [][message' \in {"Permission denied", "Error Deleting Lick"}
           => /\ files' = files
              /\ files[current_lick_path].kind # "missing"
              /\ Document' = Document
              /\ current_lick_path' = current_lick_path]_vars

\* C25: creating a lick with no name, or a blank name, is not refused for its
\* name; when the file is written (an existing file not kept, the write not
\* failing) the file "Untitled Lick.lick" of the selected folder holds the
\* name "Untitled Lick" and exactly one empty measure, the editor holds that
\* lick at measure index 0, and the file is the current lick path.
C25_EmptyNameDefaults ==
    [][\A typed \in {"", " "}, reply \in {"Yes", "No"}, io_error \in BOOLEAN :
           LET created == <<LickFolder, "Untitled Lick.lick">>
           IN  \/ /\ message' # "Invalid Name"
                  /\ (~io_error /\ (files[created].kind = "missing" \/ reply = "Yes"))
                         => /\ files'[created] =
                                   [kind |-> "json", type |-> "object",
                                    value |-> [name |-> "Untitled Lick",
                                               measures |-> <<[notes |-> <<>>]>>]]
                            /\ title_label' = "Untitled Lick"
                            /\ measures' = <<[notes |-> <<>>]>>
                            /\ current_measure' = 0
                            /\ current_lick_path' = created
                            /\ message' = "Lick created"
               \/ ~CreateNewLickOf(typed, reply, io_error)]_vars

\* C25's case: the lick created without a name, over the lick that was open
C25_Witness ==
    /\ message = "Lick created"
    /\ current_lick_path = <<LickFolder, "Untitled Lick.lick">>
    /\ title_label = "Untitled Lick"
    /\ current_measure = 0
    /\ capo_position = 5
    /\ files[current_lick_path] = json_dump([name |-> "Untitled Lick",
                                             measures |-> <<EmptyMeasure>>])

\* C26: in every reachable state a current lick path that is set is the path
\* of a file that exists; so after the current lick's file was deleted from
\* the tree's context menu, or moved to another folder by drag and drop, the
\* path is not the old location and a save does not write a file there.
C26_PathHasFile ==
    current_lick_path # NoPath => files[current_lick_path].kind # "missing"

\* the file the editor's lick was loaded from or created at.  No step of
\* SpecLicks edits a lick, and there each name belongs to one file: "Test"
\* and "Capo" are loaded from a.lick, "a" and "Untitled Lick" are created at
\* a.lick and Untitled Lick.lick; "New Lick" and the name a failed load
\* leaves belong to none.
Origin ==
    CASE title_label \in {"Test", "Capo", "a"} -> <<LickFolder, "a.lick">>
      [] title_label = "Untitled Lick" -> <<LickFolder, "Untitled Lick.lick">>
      [] OTHER -> NoPath

\* C27: while the editor holds a lick loaded from or created at path P, no
\* other lick loaded since, a save that does not fail on the disk writes the
\* editor's lick to P, also after a folder was selected in the tree and after
\* a later load of a file failed.
C27_SaveWritesToOrigin ==
    [][(Origin # NoPath /\ SaveCurrentLick /\ message' # "Error Saving Lick")
           => /\ message' = "Lick Saved"
              /\ files'[Origin] = json_dump([name |-> title_label,
                                             measures |-> measures])]_vars

\* C28: after every operation that changes the placements of the current
\* measure, the current measure index or the capo position, the note sequence
\* and the key on display are those of the current measure's placements under
\* the current capo.  The operation starts from an index of the measure list.
C28_DisplayFollows ==
    [][(/\ current_measure < Len(measures)
        /\ \/ measures' # measures
           \/ current_measure' # current_measure
           \/ capo_position' # capo_position)
           => /\ current_measure' < Len(measures')
              /\ note_sequence_label' = ExpectedSequence(capo_position', CurrentNotes')
              /\ key_label' = ExpectedKey(capo_position', CurrentNotes')]_vars

\* the elements of s at the indices K, in the order of s
AtIndices(s, K) ==
    [k \in 1..Cardinality(K) |->
        s[CHOOSE i \in K : Cardinality({j \in K : j < i}) = k - 1]]

\* C29: a right-click changes the current measure only, and takes from it
\* only placements whose stored x and y are both within 10 units of the
\* click: the placements outside are all kept, the kept placements are in
\* their order, and the other measures, the index and the capo stay.
C29_RightClickFrame ==
    [][\A pt \in EditClickPoints :
           \/ /\ current_measure' = current_measure
              /\ capo_position' = capo_position
              /\ Len(measures') = Len(measures)
              /\ \A m \in 1..Len(measures) :
                     m # current_measure + 1 => measures'[m] = measures[m]
              /\ current_measure < Len(measures)
                     => \E K \in SUBSET (1..Len(CurrentNotes)) :
                            /\ CurrentNotes' = AtIndices(CurrentNotes, K)
                            /\ \A i \in 1..Len(CurrentNotes) :
                                   i \notin K
                                       => /\ pt[1] - CurrentNotes[i].x \in -10..10
                                          /\ pt[2] - CurrentNotes[i].y \in -10..10
           \/ ~RightClickAt(pt)]_vars

\* C29's case: a click has taken placements from the first measure and left
\* the placement 60 units below them
C29_Witness ==
    /\ Len(measures[1].notes) = 1
    /\ measures[1].notes[1].y = 100
    /\ measures[2] = [notes |-> <<TestNote>>]

\* C30: a deletion of the current lick that the user confirms and that
\* removes the file leaves no file at the path, no current lick path, and the
\* editor with the lick "New Lick" of exactly one empty measure at index 0; a
\* save right after it writes no file and reports that no lick is selected;
\* a deletion that the user declines leaves the files, the editor's lick and
\* the current lick path as they were.
C30_DeleteCurrentLick ==
    [][/\ \/ current_lick_path = NoPath
          \/ files[current_lick_path].kind = "missing"
          \/ /\ files'[current_lick_path].kind = "missing"
             /\ current_lick_path' = NoPath
             /\ title_label' = "New Lick"
             /\ measures' = <<[notes |-> <<>>]>>
             /\ current_measure' = 0
          \/ ~DeleteCurrentLickOf("Yes", "none")
       /\ \/ message # "Lick deleted"
          \/ (files' = files /\ message' = "No Lick Selected")
          \/ ~SaveCurrentLick
       /\ \A failure \in {"none", "PermissionError", "OSError"} :
              \/ current_lick_path = NoPath
              \/ files[current_lick_path].kind = "missing"
              \/ /\ files' = files
                 /\ Document' = Document
                 /\ current_lick_path' = current_lick_path
              \/ ~DeleteCurrentLickOf("No", failure)]_vars

\* C30's case: the loaded lick "Capo" was deleted and a save was tried next
C30_Witness ==
    /\ message = "No Lick Selected"
    /\ current_lick_path = NoPath
    /\ files[<<LickFolder, "a.lick">>] = Missing
    /\ files[<<LickFolder, "Untitled Lick.lick">>] = Missing
    /\ title_label = "New Lick"
    /\ measures = <<EmptyMeasure>>
    /\ capo_position = 5

====
